---- MODULE Spec2Model ----
(***************************************************************************)
(* Model of entities.py of Bogue: Entity / CombatEntity / Player / Mob.    *)
(* One action per public operation (Player.move_or_attack,                 *)
(* Mob.action_handler, CombatEntity.take_damage); the bodies are pure      *)
(* operators over a heap record h holding every object the call can touch. *)
(***************************************************************************)
EXTENDS Integers, Sequences, FiniteSets, TLC

\* ------------------------------------------------------------- bounds
\* The maps are a MapW x MapH room and a corridor of CorridorLen tiles;
\* every tile outside the map is wall.
MapW == 3
MapH == 2
CorridorLen == 3
\* Player(..., 300, 30) scaled down.
PlayerHp == 1
PlayerAtk == 2
\* Spider (200, 15) and Skeleton (235, 20) scaled down to one pair.
MobHp == 3
MobAtk == 1
\* The message box holds up to MaxMessages lines of MsgWidth characters
\* (config.MSG_HEIGHT, config.MSG_WIDTH less the border, scaled down); a
\* message has up to MaxWords words and MaxLines lines are appended in all.
MaxMessages == 2
MsgWidth == 3
MaxWords == 3
MaxLines == 3
\* A SelectMenu has up to MaxOptions options and shows up to MaxShown of
\* them; the inventory holds up to MaxCount of each item and its menu shows
\* ItemsPerPage (config.ITEMS_PER_PAGE, scaled down) options.
MaxOptions == 5
MaxShown == 3
MaxCount == 2
ItemsPerPage == 2
\* The amounts of a direct take_damage call: none, the least, and the
\* amounts that are lethal to a mob at full hp, exactly and with excess.
Damages == {0, 1, MobHp, MobHp + 1}

\* ---------------------------------------------------- program constants
SpiderMorale == 50
SkeletonMorale == 100
\* random.randrange(101) draws from 0..RollMax.
RollMax == 100

\* data.HOLD, data.CHASE, data.RUN index the rows and columns of
\* state_chart; data.DEAD is outside the chart.  ALIVE stands for any
\* game_state other than data.DEAD.
HOLD == 0
CHASE == 1
RUN == 2
DEAD == 3
ALIVE == 4

Mobs == {"spider", "skeleton"}
\* A registry of three: a second Spider joins the two.
Horde == Mobs \cup {"spider2"}
Entities == {"player"} \cup Mobs

Morale(m) == IF m = "skeleton" THEN SkeletonMorale ELSE SpiderMorale

\* The morale rolls the model draws: the ends of 0..RollMax and the values
\* on both sides of each morale threshold.
Rolls == {0, SpiderMorale, SpiderMorale + 1, RollMax}

\* The tile maps of the world: an open room, and a corridor along y = 0.
Room == (0 .. MapW - 1) \X (0 .. MapH - 1)
Corridor == (0 .. CorridorLen - 1) \X {0}
\* A corridor one tile longer, with room for the player and three mobs.
Hall == (0 .. CorridorLen) \X {0}

\* The moves a key press can ask of the player.
Dirs == {<<1, 0>>, <<-1, 0>>, <<0, 1>>, <<0, -1>>}

VARIABLES
    floor,        \* handler.world: the tiles that are not wall
    player,       \* the Player object: x, y, hp, max_hp, atk, char, solid
    mob,          \* the Mob objects, by name
    mobs,         \* handler.map_objects['mobs'], the registry (a list)
    game_state,   \* handler.game_state
    fov_refresh,  \* handler.fov_refresh
    msgs,         \* the add_msg calls of the last operation, in order
    die_calls,    \* the die() invocations of the last operation, in order
    seen,         \* the mobs the loop of the last move_or_attack looked at, in order
    ret,          \* what the last operation returned: <<>> for None, <<v>> for v
    last,         \* the last operation and the object it was called on
    message_box,  \* the MessageBox object: messages, max_messages
    appended,     \* every line ever appended to the message box, in order
    menu,         \* the menu on screen, a SelectMenu or an InventoryMenu
    inv           \* handler.player.inv: the count of every item held

vars == <<floor, player, mob, mobs, game_state, fov_refresh, msgs, die_calls, seen, ret, last,
          message_box, appended, menu, inv>>

\* The state of the game proper, and the state of the GUI elements.
game_vars == <<floor, player, mob, mobs, game_state, fov_refresh, msgs, die_calls, seen, ret>>

gui_vars == <<message_box, appended, menu, inv>>

\* ------------------------------------------------------------ the heap
Heap ==
    [floor |-> floor, player |-> player, mob |-> mob, mobs |-> mobs, game_state |-> game_state,
     fov_refresh |-> fov_refresh, msgs |-> <<>>, die_calls |-> <<>>,
     seen |-> <<>>, ret |-> <<>>]

Ent(h, e) == IF e = "player" THEN h.player ELSE h.mob[e]

SetPos(h, e, x, y) ==
    IF e = "player" THEN [h EXCEPT !.player.x = x, !.player.y = y]
    ELSE [h EXCEPT !.mob[e].x = x, !.mob[e].y = y]

SetHp(h, e, hp) ==
    IF e = "player" THEN [h EXCEPT !.player.hp = hp]
    ELSE [h EXCEPT !.mob[e].hp = hp]

Msg(text, who, dmg) == [text |-> text, who |-> who, dmg |-> dmg]

add_msg(h, text, who, dmg) == [h EXCEPT !.msgs = Append(@, Msg(text, who, dmg))]

\* world.is_solid(x, y): the tile is wall, or a solid entity stands on it.
is_solid(h, x, y) ==
    \/ <<x, y>> \notin h.floor
    \/ h.player.solid /\ h.player.x = x /\ h.player.y = y
    \/ \E m \in DOMAIN h.mob : h.mob[m].solid /\ h.mob[m].x = x /\ h.mob[m].y = y

\* Entity.move without the is_solid test.
move_unchecked(h, e, dx, dy) == SetPos(h, e, Ent(h, e).x + dx, Ent(h, e).y + dy)

\* Entity.move
move(h, e, dx, dy) ==
    IF ~is_solid(h, Ent(h, e).x + dx, Ent(h, e).y + dy)
    THEN SetPos(h, e, Ent(h, e).x + dx, Ent(h, e).y + dy)
    ELSE h

\* list.remove(x): drops the first occurrence of x.
RECURSIVE ListRemove(_, _)
ListRemove(s, x) ==
    IF s = <<>> THEN <<>>
    ELSE IF Head(s) = x THEN Tail(s)
    ELSE <<Head(s)>> \o ListRemove(Tail(s), x)

\* send_to_back moving m to the last index.
send_to_back_append(h, m) == [h EXCEPT !.mobs = ListRemove(h.mobs, m) \o <<m>>]

\* send_to_back as an exchange of m with the mob at index 0.
send_to_back_swap(h, m) ==
    [h EXCEPT !.mobs = [i \in 1 .. Len(h.mobs) |->
                           IF i = 1 THEN m
                           ELSE IF h.mobs[i] = m THEN h.mobs[1] ELSE h.mobs[i]]]

\* Mob.send_to_back
send_to_back(h, m) == [h EXCEPT !.mobs = <<m>> \o ListRemove(h.mobs, m)]

\* Mob.die
Mob_die(h, m) ==
    send_to_back([h EXCEPT !.mob[m].char = "X", !.mob[m].solid = FALSE,
                           !.mob[m].state = DEAD], m)

\* Player.die with the guard inverted: it acts only when already dead.
Player_die_inverted(h) ==
    IF h.game_state = DEAD
    THEN [h EXCEPT !.game_state = DEAD, !.player.char = "%"]
    ELSE h

\* Player.die
Player_die(h) ==
    IF h.game_state # DEAD
    THEN [h EXCEPT !.game_state = DEAD, !.player.char = "%"]
    ELSE h

\* self.die(), dispatched on the class of e; every invocation is recorded.
die(h, e) ==
    IF e = "player"
    THEN Player_die([h EXCEPT !.die_calls = Append(@, e)])
    ELSE Mob_die([h EXCEPT !.die_calls = Append(@, e)], e)

\* take_damage without the clamp: lethal damage is subtracted, not set to 0.
take_damage_unclamped(h, e, damage) ==
    IF Ent(h, e).hp - damage <= 0
    THEN die(SetHp(h, e, Ent(h, e).hp - damage), e)
    ELSE SetHp(h, e, Ent(h, e).hp - damage)

\* take_damage with the test hp - damage < 0: damage equal to hp leaves the
\* entity at hp 0 without calling die().
take_damage_strict(h, e, damage) ==
    IF Ent(h, e).hp - damage < 0
    THEN die(SetHp(h, e, 0), e)
    ELSE SetHp(h, e, Ent(h, e).hp - damage)

\* CombatEntity.take_damage
take_damage(h, e, damage) ==
    IF Ent(h, e).hp - damage <= 0
    THEN die(SetHp(h, e, 0), e)
    ELSE SetHp(h, e, Ent(h, e).hp - damage)

\* hasattr(target, "hp"): the player and the mobs are CombatEntity objects;
\* anything else is a plain Entity, which has no hp.
has_hp(h, target) == target = "player" \/ target \in DOMAIN h.mob

\* The value of deal_damage with 0 in place of None for a target without hp.
deal_damage_return_zero(h, target, dmg) ==
    IF has_hp(h, target) THEN <<dmg>> ELSE <<0>>

\* The value CombatEntity.deal_damage returns: dmg, and None (the function
\* falls off its end) for a target without hp.
deal_damage_return(h, target, dmg) ==
    IF has_hp(h, target) THEN <<dmg>> ELSE <<>>

\* CombatEntity.deal_damage; dmg is the value drawn by
\* random.randrange(self.atk + 1) when the target has hp.
deal_damage(h, target, dmg) ==
    IF has_hp(h, target) THEN take_damage(h, target, dmg) ELSE h

\* The loop of move_or_attack without the test `if dmg:`: every attack is
\* reported as a hit.
RECURSIVE attack_loop_no_miss(_, _, _, _, _)
attack_loop_no_miss(h, i, dx, dy, dmgs) ==
    IF i > Len(h.mobs) THEN h
    ELSE LET m == h.mobs[i]
             h0 == [h EXCEPT !.seen = Append(@, m)]
             hit == /\ h.mob[m].x = h.player.x + dx
                    /\ h.mob[m].y = h.player.y + dy
                    /\ h.mob[m].solid
             h1 == deal_damage(h0, m, dmgs[i])
             h2 == add_msg(h1, "You attack", m, dmgs[i])
             h3 == IF h2.mob[m].state = DEAD
                   THEN [add_msg(h2, "You killed", m, 0)
                            EXCEPT !.mob[m].remains = @ + 1]
                   ELSE h2
         IN  IF hit THEN attack_loop_no_miss(h3, i + 1, dx, dy, dmgs)
             ELSE attack_loop_no_miss(h0, i + 1, dx, dy, dmgs)

\* The body of the for loop of Player.move_or_attack.  The list iterator
\* holds an index into the live list, which die() reorders under it.
RECURSIVE attack_loop(_, _, _, _, _)
attack_loop(h, i, dx, dy, dmgs) ==
    IF i > Len(h.mobs) THEN h
    ELSE LET m == h.mobs[i]
             h0 == [h EXCEPT !.seen = Append(@, m)]
             hit == /\ h.mob[m].x = h.player.x + dx
                    /\ h.mob[m].y = h.player.y + dy
                    /\ h.mob[m].solid
             h1 == deal_damage(h0, m, dmgs[i])
             h2 == IF dmgs[i] # 0 THEN add_msg(h1, "You attack", m, dmgs[i])
                   ELSE add_msg(h1, "You missed", m, 0)
             h3 == IF h2.mob[m].state = DEAD
                   THEN [add_msg(h2, "You killed", m, 0)
                            EXCEPT !.mob[m].remains = @ + 1]
                   ELSE h2
         IN  IF hit THEN attack_loop(h3, i + 1, dx, dy, dmgs)
             ELSE attack_loop(h0, i + 1, dx, dy, dmgs)

\* Player.move_or_attack: the loop has no break, so its else clause runs
\* after every loop.
move_or_attack(h, dx, dy, dmgs) ==
    move([attack_loop(h, 1, dx, dy, dmgs) EXCEPT !.fov_refresh = TRUE],
         "player", dx, dy)

\* ------------------------------------------------ Mob: state predicates
\* Mob.healthy: hp >= 0.4*max_hp.  hp and max_hp are integers, so the test
\* is 10*hp >= 4*max_hp: the float test and the integer test agree for
\* every max_hp up to 2000, the presets 200 and 235 among them.
healthy(h, m) == 10 * h.mob[m].hp >= 4 * h.mob[m].max_hp

\* Mob.in_sight: libt.map_is_in_fov on the mob's tile; vis is the answer of
\* the field-of-view map during this call.
in_sight(h, m, vis) == vis

\* Mob.not_in_sight
not_in_sight(h, m, vis) == ~in_sight(h, m, vis)

\* in_sight_and_healthy without the health test.
in_sight_and_healthy_blind(h, m, vis) == in_sight(h, m, vis)

\* Mob.in_sight_and_healthy
in_sight_and_healthy(h, m, vis) == in_sight(h, m, vis) /\ healthy(h, m)

\* in_sight_and_not_healthy with the roll compared by >=.
in_sight_and_not_healthy_geq(h, m, vis, roll) ==
    IF roll >= h.mob[m].morale
    THEN in_sight(h, m, vis) /\ ~healthy(h, m)
    ELSE FALSE

\* Mob.in_sight_and_not_healthy; roll is the value of random.randrange(101).
in_sight_and_not_healthy(h, m, vis, roll) ==
    IF roll > h.mob[m].morale
    THEN in_sight(h, m, vis) /\ ~healthy(h, m)
    ELSE FALSE

\* state_chart with the two checks of the RUN row exchanged.
state_chart_swapped ==
    << <<"None", "in_sight_and_healthy", "in_sight_and_not_healthy">>,
       <<"not_in_sight", "None", "in_sight_and_not_healthy">>,
       <<"in_sight_and_healthy", "not_in_sight", "None">> >>

\* state_chart with a check on the diagonal of the CHASE row.
state_chart_diagonal ==
    << <<"None", "in_sight_and_healthy", "in_sight_and_not_healthy">>,
       <<"not_in_sight", "in_sight_and_healthy", "in_sight_and_not_healthy">>,
       <<"not_in_sight", "in_sight_and_healthy", "None">> >>

\* Mob.state_chart: row = current state, column = candidate next state.
state_chart ==
    << <<"None", "in_sight_and_healthy", "in_sight_and_not_healthy">>,
       <<"not_in_sight", "None", "in_sight_and_not_healthy">>,
       <<"not_in_sight", "in_sight_and_healthy", "None">> >>

\* check(): the call of one cell of state_chart.
check(h, m, cell, vis, roll) ==
    CASE cell = "in_sight_and_healthy" -> in_sight_and_healthy(h, m, vis)
      [] cell = "in_sight_and_not_healthy" ->
             in_sight_and_not_healthy(h, m, vis, roll)
      [] cell = "not_in_sight" -> not_in_sight(h, m, vis)
      [] OTHER -> FALSE

\* The for loop of Mob.action_handler over the row picked on entry; x is
\* the column index, row[x + 1] the cell.  No cell ends the loop.
RECURSIVE transition_loop(_, _, _, _, _, _)
transition_loop(h, m, row, x, vis, roll) ==
    IF x >= Len(row) THEN h
    ELSE IF row[x + 1] = "None" THEN transition_loop(h, m, row, x + 1, vis, roll)
    ELSE IF check(h, m, row[x + 1], vis, roll)
    THEN LET h1 == [h EXCEPT !.mob[m].state = x]
             h2 == IF x = CHASE THEN add_msg(h1, "sees you", m, 0)
                   ELSE IF x = RUN THEN add_msg(h1, "runs away", m, 0)
                   ELSE h1
         IN  transition_loop(h2, m, row, x + 1, vis, roll)
    ELSE transition_loop(h, m, row, x + 1, vis, roll)

\* The transition step of Mob.action_handler.
transition(h, m, vis, roll) ==
    transition_loop(h, m, state_chart[h.mob[m].state + 1], 0, vis, roll)

\* ------------------------------------------------- Mob: chase and run
\* linear_dist is math.sqrt of this sum of squares; sqrt is strictly
\* increasing on these integers, so distances compare as the sums do.
linear_dist(x1, x2, y1, y2) == (x1 - x2) * (x1 - x2) + (y1 - y2) * (y1 - y2)

possible_posn == << <<1, 0>>, <<-1, 0>>, <<0, 1>>, <<0, -1>> >>

\* chase_loop without the game_state test: a mob next to the player attacks
\* although the game is over.
RECURSIVE chase_loop_no_dead_test(_, _, _, _)
chase_loop_no_dead_test(acc, m, k, dmg) ==
    IF k > Len(possible_posn) THEN acc
    ELSE LET h == acc.h
             nx == h.mob[m].x + possible_posn[k][1]
             ny == h.mob[m].y + possible_posn[k][2]
             h1 == deal_damage(h, "player", dmg)
             h2 == IF dmg # 0 THEN add_msg(h1, "attacks you", m, dmg)
                   ELSE add_msg(h1, "missed", m, 0)
             h3 == IF h2.game_state = DEAD THEN add_msg(h2, "killed you", m, 0)
                   ELSE h2
             new_dist == linear_dist(nx, h.player.x, ny, h.player.y)
         IN  IF nx = h.player.x /\ ny = h.player.y
             THEN chase_loop_no_dead_test([acc EXCEPT !.h = h3], m, k + 1, dmg)
             ELSE IF ~is_solid(h, nx, ny) /\ new_dist < acc.dist
             THEN chase_loop_no_dead_test([acc EXCEPT !.dist = new_dist,
                                              !.mv = possible_posn[k]], m, k + 1, dmg)
             ELSE chase_loop_no_dead_test(acc, m, k + 1, dmg)

\* chase_loop with new_dist <= min_dist_to_target: the last of several
\* equally close neighbours wins, and a neighbour no closer is taken.
RECURSIVE chase_loop_leq(_, _, _, _)
chase_loop_leq(acc, m, k, dmg) ==
    IF k > Len(possible_posn) THEN acc
    ELSE LET h == acc.h
             nx == h.mob[m].x + possible_posn[k][1]
             ny == h.mob[m].y + possible_posn[k][2]
             h1 == deal_damage(h, "player", dmg)
             h2 == IF dmg # 0 THEN add_msg(h1, "attacks you", m, dmg)
                   ELSE add_msg(h1, "missed", m, 0)
             h3 == IF h2.game_state = DEAD THEN add_msg(h2, "killed you", m, 0)
                   ELSE h2
             new_dist == linear_dist(nx, h.player.x, ny, h.player.y)
         IN  IF nx = h.player.x /\ ny = h.player.y /\ h.game_state # DEAD
             THEN chase_loop_leq([acc EXCEPT !.h = h3], m, k + 1, dmg)
             ELSE IF ~is_solid(h, nx, ny) /\ new_dist <= acc.dist
             THEN chase_loop_leq([acc EXCEPT !.dist = new_dist,
                                             !.mv = possible_posn[k]], m, k + 1, dmg)
             ELSE chase_loop_leq(acc, m, k + 1, dmg)

\* The for loop of Mob.chase.  acc.h is the heap, acc.dist is
\* min_dist_to_target, acc.mv is move_to_make (<<>> for None).
RECURSIVE chase_loop(_, _, _, _)
chase_loop(acc, m, k, dmg) ==
    IF k > Len(possible_posn) THEN acc
    ELSE LET h == acc.h
             nx == h.mob[m].x + possible_posn[k][1]
             ny == h.mob[m].y + possible_posn[k][2]
             h1 == deal_damage(h, "player", dmg)
             h2 == IF dmg # 0 THEN add_msg(h1, "attacks you", m, dmg)
                   ELSE add_msg(h1, "missed", m, 0)
             h3 == IF h2.game_state = DEAD THEN add_msg(h2, "killed you", m, 0)
                   ELSE h2
             new_dist == linear_dist(nx, h.player.x, ny, h.player.y)
         IN  IF nx = h.player.x /\ ny = h.player.y /\ h.game_state # DEAD
             THEN chase_loop([acc EXCEPT !.h = h3], m, k + 1, dmg)
             ELSE IF ~is_solid(h, nx, ny) /\ new_dist < acc.dist
             THEN chase_loop([acc EXCEPT !.dist = new_dist,
                                         !.mv = possible_posn[k]], m, k + 1, dmg)
             ELSE chase_loop(acc, m, k + 1, dmg)

\* Mob.chase(self.handler.player)
chase(h, m, dmg) ==
    LET acc == chase_loop([h |-> h, mv |-> <<>>,
                           dist |-> linear_dist(h.mob[m].x, h.player.x,
                                                h.mob[m].y, h.player.y)],
                          m, 1, dmg)
    IN  IF acc.mv # <<>> THEN move(acc.h, m, acc.mv[1], acc.mv[2]) ELSE acc.h

\* run_loop with new_dist >= max_dist_to_target.
RECURSIVE run_loop_geq(_, _, _)
run_loop_geq(acc, m, k) ==
    IF k > Len(possible_posn) THEN acc
    ELSE LET h == acc.h
             nx == h.mob[m].x + possible_posn[k][1]
             ny == h.mob[m].y + possible_posn[k][2]
             new_dist == linear_dist(nx, h.player.x, ny, h.player.y)
         IN  IF ~is_solid(h, nx, ny) /\ new_dist >= acc.dist
             THEN run_loop_geq([acc EXCEPT !.dist = new_dist,
                                           !.mv = possible_posn[k]], m, k + 1)
             ELSE run_loop_geq(acc, m, k + 1)

\* The for loop of Mob.run.
RECURSIVE run_loop(_, _, _)
run_loop(acc, m, k) ==
    IF k > Len(possible_posn) THEN acc
    ELSE LET h == acc.h
             nx == h.mob[m].x + possible_posn[k][1]
             ny == h.mob[m].y + possible_posn[k][2]
             new_dist == linear_dist(nx, h.player.x, ny, h.player.y)
         IN  IF ~is_solid(h, nx, ny) /\ new_dist > acc.dist
             THEN run_loop([acc EXCEPT !.dist = new_dist,
                                       !.mv = possible_posn[k]], m, k + 1)
             ELSE run_loop(acc, m, k + 1)

\* Mob.run(self.handler.player)
run(h, m) ==
    LET acc == run_loop([h |-> h, mv |-> <<>>,
                         dist |-> linear_dist(h.mob[m].x, h.player.x,
                                              h.mob[m].y, h.player.y)],
                        m, 1)
    IN  IF acc.mv # <<>> THEN move(acc.h, m, acc.mv[1], acc.mv[2]) ELSE acc.h

\* The dispatch at the end of Mob.action_handler.
dispatch(h, m, dmg) ==
    IF h.mob[m].state = HOLD THEN h
    ELSE IF h.mob[m].state = CHASE THEN chase(h, m, dmg)
    ELSE IF h.mob[m].state = RUN THEN run(h, m)
    ELSE h

\* action_handler dispatching on the state it had on entry.
action_handler_stale(h, m, vis, roll, dmg) ==
    IF h.mob[m].state = DEAD THEN h
    ELSE IF h.mob[m].state = HOLD THEN transition(h, m, vis, roll)
    ELSE IF h.mob[m].state = CHASE THEN chase(transition(h, m, vis, roll), m, dmg)
    ELSE run(transition(h, m, vis, roll), m)

\* Mob.action_handler
action_handler(h, m, vis, roll, dmg) ==
    IF h.mob[m].state = DEAD THEN h
    ELSE dispatch(transition(h, m, vis, roll), m, dmg)

\* The registry indices at which move_or_attack(dx, dy) finds a solid mob
\* on the target tile, i.e. the iterations that draw a damage value.
Targets(h, dx, dy) ==
    {i \in 1 .. Len(h.mobs) :
        /\ h.mob[h.mobs[i]].x = h.player.x + dx
        /\ h.mob[h.mobs[i]].y = h.player.y + dy
        /\ h.mob[h.mobs[i]].solid}

\* The values random.randrange(101) can return in action_handler: only the
\* rows of HOLD and CHASE hold in_sight_and_not_healthy, the one drawer.
RollsDrawn(h, m) == IF h.mob[m].state \in {HOLD, CHASE} THEN Rolls ELSE {0}

\* The values random.randrange(self.atk + 1) can return in action_handler:
\* a value is drawn only by an attack, which needs the player next to m.
DamageDrawn(h, m) ==
    IF linear_dist(h.mob[m].x, h.player.x, h.mob[m].y, h.player.y) = 1
    THEN 0 .. h.mob[m].atk ELSE {0}

Commit(h, l) ==
    /\ floor' = h.floor
    /\ player' = h.player
    /\ mob' = h.mob
    /\ mobs' = h.mobs
    /\ game_state' = h.game_state
    /\ fov_refresh' = h.fov_refresh
    /\ msgs' = h.msgs
    /\ die_calls' = h.die_calls
    /\ seen' = h.seen
    /\ ret' = h.ret
    /\ last' = l
    /\ UNCHANGED gui_vars

\* ----------------------------------------------------- gui: MessageBox
\* The words of a message; each is one character wide.
Words == {"a", "b"}

\* The messages add_msg is called with: up to MaxWords words.
RECURSIVE Seqs(_, _)
Seqs(S, n) ==
    IF n = 0 THEN {<<>>}
    ELSE Seqs(S, n - 1) \cup {Append(q, x) : q \in Seqs(S, n - 1), x \in S}

\* The width of a line of words joined by single spaces.
LineWidth(line) == IF line = <<>> THEN 0 ELSE 2 * Len(line) - 1

\* textwrap.wrap(msg, width): the words are packed greedily into lines no
\* wider than width; lines is the list built so far, line the open line.
RECURSIVE wrap_loop(_, _, _, _)
wrap_loop(words, width, lines, line) ==
    IF words = <<>> THEN (IF line = <<>> THEN lines ELSE Append(lines, line))
    ELSE IF line # <<>> /\ LineWidth(Append(line, Head(words))) > width
    THEN wrap_loop(words, width, Append(lines, line), <<>>)
    ELSE wrap_loop(Tail(words), width, lines, Append(line, Head(words)))

wrap(msg, width) == wrap_loop(msg, width, <<>>, <<>>)

\* MessageBox.__init__
MessageBox(max_messages) == [messages |-> <<>>, max_messages |-> max_messages]

\* The loop of add_msg evicting the newest line instead of the oldest.
RECURSIVE add_msg_loop_newest(_, _, _)
add_msg_loop_newest(box, wrapped, colour) ==
    IF wrapped = <<>> THEN box
    ELSE LET b1 == IF Len(box.messages) = box.max_messages
                   THEN [box EXCEPT !.messages = SubSeq(@, 1, Len(@) - 1)]
                   ELSE box
         IN  add_msg_loop_newest([b1 EXCEPT !.messages = Append(@, <<Head(wrapped), colour>>)],
                                 Tail(wrapped), colour)

\* The for loop of MessageBox.add_msg over the wrapped lines.
RECURSIVE add_msg_loop(_, _, _)
add_msg_loop(box, wrapped, colour) ==
    IF wrapped = <<>> THEN box
    ELSE LET b1 == IF Len(box.messages) = box.max_messages
                   THEN [box EXCEPT !.messages = Tail(@)]
                   ELSE box
         IN  add_msg_loop([b1 EXCEPT !.messages = Append(@, <<Head(wrapped), colour>>)],
                          Tail(wrapped), colour)

\* MessageBox.add_msg
MessageBox_add_msg(box, msg, colour) == add_msg_loop(box, wrap(msg, MsgWidth), colour)

\* ------------------------------------------------------ gui: SelectMenu
Min(a, b) == IF a < b THEN a ELSE b

\* SelectMenu.__init__; raised holds the exception that ended select(), if
\* any.  Indices are Python's: option i of the list is options[i + 1].
SelectMenu(options, column2, max_options) ==
    [options |-> options, column2 |-> column2, max_options |-> max_options,
     max_selection |-> Len(options) - 1,
     slice_head |-> 0,
     slice_tail |-> Min(max_options, Len(options) - 1 + 1),
     selection_index |-> 0,
     active |-> TRUE, raised |-> <<>>]

\* select(), KEY_UP, with the window test left out: the selection moves up
\* whenever it is not at option 0.
key_up_no_scroll(mn) ==
    IF mn.selection_index > 0
    THEN [mn EXCEPT !.selection_index = @ - 1]
    ELSE mn

\* select(), the branch of KEY_UP
key_up(mn) ==
    IF mn.selection_index > mn.slice_head
    THEN [mn EXCEPT !.selection_index = @ - 1]
    ELSE IF mn.slice_head > 0
    THEN [mn EXCEPT !.selection_index = @ - 1, !.slice_head = @ - 1,
                    !.slice_tail = @ - 1]
    ELSE mn

\* select(), the branch of KEY_DOWN
key_down(mn) ==
    IF mn.selection_index < mn.slice_tail - 1
    THEN [mn EXCEPT !.selection_index = @ + 1]
    ELSE IF mn.slice_tail < mn.max_selection + 1
    THEN [mn EXCEPT !.selection_index = @ + 1, !.slice_head = @ + 1,
                    !.slice_tail = @ + 1]
    ELSE mn

\* select(), a key of self.escape: the loop ends at its next test.
key_escape(mn) == [mn EXCEPT !.active = FALSE]

\* --------------------------------------------------- gui: InventoryMenu
\* The items the player can hold, in the order in which player.inv yields
\* them; only the potion is stackable.
ItemOrder == <<"sword", "shield", "potion">>

Stackable(item) == item = "potion"

Rep(x, n) == [i \in 1 .. n |-> x]

\* The loop of InventoryMenu.__init__ over player.inv from item k on: one
\* row per piece of an item that does not stack, one row with the quantity
\* for an item that stacks.
RECURSIVE item_names(_, _)
item_names(iv, k) ==
    IF k > Len(ItemOrder) THEN <<>>
    ELSE LET item == ItemOrder[k]
         IN  (IF item \notin DOMAIN iv THEN <<>>
              ELSE IF ~Stackable(item) THEN Rep(item, iv[item])
              ELSE <<item>>) \o item_names(iv, k + 1)

RECURSIVE item_qty(_, _)
item_qty(iv, k) ==
    IF k > Len(ItemOrder) THEN <<>>
    ELSE LET item == ItemOrder[k]
         IN  (IF item \notin DOMAIN iv THEN <<>>
              ELSE IF ~Stackable(item) THEN Rep(<<>>, iv[item])
              ELSE << <<"Qty: ", iv[item]>> >>) \o item_qty(iv, k + 1)

\* InventoryMenu.__init__
InventoryMenu(iv) == SelectMenu(item_names(iv, 1), item_qty(iv, 1), ItemsPerPage)

\* del s[i], i a Python index inside the list.
RemoveAt(s, i) == SubSeq(s, 1, i) \o SubSeq(s, i + 2, Len(s))

\* player.player_drop(item): one piece less, and no entry for an item of
\* which none is left.
player_drop(iv, item) ==
    IF iv[item] > 1 THEN [iv EXCEPT ![item] = @ - 1]
    ELSE [x \in DOMAIN iv \ {item} |-> iv[x]]

\* The branch of bind_drop that removes the selected row.
drop_row(mn) ==
    LET i == mn.selection_index
        m1 == [mn EXCEPT !.options = RemoveAt(@, i), !.column2 = RemoveAt(@, i)]
        m2 == IF i = mn.max_selection /\ mn.slice_head > 0
              THEN [m1 EXCEPT !.slice_head = @ - 1, !.slice_tail = @ - 1,
                              !.selection_index = @ - 1]
              ELSE IF i = mn.max_selection
              THEN [m1 EXCEPT !.slice_tail = @ - 1, !.selection_index = @ - 1]
              ELSE m1
    IN  [m2 EXCEPT !.max_selection = @ - 1]

\* InventoryMenu.bind_drop on the menu mn and the inventory iv.  An index
\* past the list raises IndexError; int() of a "Qty: n" cell raises
\* ValueError; the exception leaves select() before player_drop runs.
bind_drop(mn, iv) ==
    IF mn.options = <<>> THEN [menu |-> mn, inv |-> iv]
    ELSE IF mn.selection_index >= Len(mn.options)
    THEN [menu |-> [mn EXCEPT !.raised = <<"IndexError">>], inv |-> iv]
    ELSE LET item == mn.options[mn.selection_index + 1]
         IN  IF item \notin DOMAIN iv THEN [menu |-> mn, inv |-> iv]
             ELSE IF iv[item] = 1 \/ ~Stackable(item)
             THEN [menu |-> drop_row(mn), inv |-> player_drop(iv, item)]
             ELSE [menu |-> [mn EXCEPT !.raised = <<"ValueError">>], inv |-> iv]

\* The GUI elements while the game is played: an empty message box, an
\* empty inventory and its menu.
GuiIdle ==
    /\ message_box = MessageBox(MaxMessages)
    /\ appended = <<>>
    /\ inv = <<>>
    /\ menu = InventoryMenu(<<>>)

NewMob(x, y, m) ==
    [x |-> x, y |-> y, hp |-> MobHp, max_hp |-> MobHp, atk |-> MobAtk,
     morale |-> Morale(m), state |-> HOLD, solid |-> TRUE,
     char |-> IF m = "skeleton" THEN "S" ELSE "s",
     remains |-> 0]

NewPlayer(x, y) ==
    [x |-> x, y |-> y, hp |-> PlayerHp, max_hp |-> PlayerHp, atk |-> PlayerAtk,
     char |-> "@", solid |-> TRUE]

Init ==
    /\ floor = Corridor
    /\ \E p \in floor, s \in floor, k \in floor :
          /\ p # s /\ p # k /\ s # k
          /\ player = NewPlayer(p[1], p[2])
          /\ mob = [m \in Mobs |-> IF m = "spider" THEN NewMob(s[1], s[2], m)
                                   ELSE NewMob(k[1], k[2], m)]
    /\ mobs = <<"spider", "skeleton">>
    /\ game_state = ALIVE
    /\ fov_refresh = FALSE
    /\ msgs = <<>>
    /\ die_calls = <<>>
    /\ seen = <<>>
    /\ ret = <<>>
    /\ GuiIdle
    /\ last = [op |-> "init", who |-> "player", hp0 |-> PlayerHp,
               pos0 |-> <<player.x, player.y>>]

\* What `last` keeps of a call: the operation, the object it was called on
\* and that object's hp and tile on entry.
Call(op, who) ==
    [op |-> op, who |-> who, hp0 |-> Ent(Heap, who).hp,
     pos0 |-> <<Ent(Heap, who).x, Ent(Heap, who).y>>]

\* player.move_or_attack(d[1], d[2]); dmgs[i] is the damage drawn by the
\* attack of iteration i.
MoveOrAttackCall(d, dmgs) ==
    Commit(move_or_attack(Heap, d[1], d[2], dmgs), Call("move_or_attack", "player"))

MoveOrAttack ==
    \E d \in Dirs :
      \E dmgs \in [Targets(Heap, d[1], d[2]) -> 0 .. player.atk] :
        MoveOrAttackCall(d, dmgs)

\* e.take_damage(damage), called directly.
TakeDamageCall(e, damage) ==
    Commit(take_damage(Heap, e, damage), Call("take_damage", e))

TakeDamage ==
    \E e \in Entities, damage \in Damages : TakeDamageCall(e, damage)

\* m.action_handler(), with the answers of the field-of-view map and of the
\* random source during the call.
ActionHandlerCall(m, vis, roll, dmg) ==
    Commit(action_handler(Heap, m, vis, roll, dmg), Call("action_handler", m))

ActionHandler ==
    \E m \in DOMAIN mob, vis \in BOOLEAN :
      \E roll \in RollsDrawn(Heap, m), dmg \in DamageDrawn(Heap, m) :
        ActionHandlerCall(m, vis, roll, dmg)

Next == MoveOrAttack \/ ActionHandler \/ TakeDamage

Spec == Init /\ [][Next]_vars

\* The mob AI on its own: the player stands still at the end of the
\* corridor while the mobs take their turns and take damage.
InitAI ==
    /\ floor = Corridor
    /\ player = NewPlayer(0, 0)
    /\ mob = [m \in Mobs |-> IF m = "spider" THEN NewMob(CorridorLen - 2, 0, m)
                             ELSE NewMob(CorridorLen - 1, 0, m)]
    /\ mobs = <<"spider", "skeleton">>
    /\ game_state = ALIVE
    /\ fov_refresh = FALSE
    /\ msgs = <<>>
    /\ die_calls = <<>>
    /\ seen = <<>>
    /\ ret = <<>>
    /\ GuiIdle
    /\ last = [op |-> "init", who |-> "player", hp0 |-> PlayerHp,
               pos0 |-> <<player.x, player.y>>]

NextAI == ActionHandler \/ TakeDamage

SpecAI == InitAI /\ [][NextAI]_vars

\* Chase and run in the open: a room, the player and the mobs anywhere in
\* it, the spider in any state, wounded or not.
InitPath ==
    /\ floor = Room
    /\ \E p \in floor, s \in floor, k \in floor :
          /\ p # s /\ p # k /\ s # k
          /\ player = NewPlayer(p[1], p[2])
          /\ \E st \in {HOLD, CHASE, RUN}, hp \in {1, MobHp} :
                mob = [m \in Mobs |->
                          IF m = "spider"
                          THEN [NewMob(s[1], s[2], m) EXCEPT !.state = st, !.hp = hp]
                          ELSE NewMob(k[1], k[2], m)]
    /\ mobs = <<"spider", "skeleton">>
    /\ game_state = ALIVE
    /\ fov_refresh = FALSE
    /\ msgs = <<>>
    /\ die_calls = <<>>
    /\ seen = <<>>
    /\ ret = <<>>
    /\ GuiIdle
    /\ last = [op |-> "init", who |-> "player", hp0 |-> PlayerHp,
               pos0 |-> <<player.x, player.y>>]

NextPath == ActionHandler

SpecPath == InitPath /\ [][NextPath]_vars

\* Turns only, against three mobs: the player stands between the first
\* spider and the skeleton, the second spider behind the skeleton, and all
\* take turns in any order; nothing calls take_damage but an attack.
InitHorde ==
    /\ floor = Hall
    /\ player = NewPlayer(1, 0)
    /\ mob = [m \in Horde |->
                 NewMob(IF m = "spider" THEN 0
                        ELSE IF m = "skeleton" THEN 2 ELSE CorridorLen, 0, m)]
    /\ mobs = <<"spider", "skeleton", "spider2">>
    /\ game_state = ALIVE
    /\ fov_refresh = FALSE
    /\ msgs = <<>>
    /\ die_calls = <<>>
    /\ seen = <<>>
    /\ ret = <<>>
    /\ GuiIdle
    /\ last = [op |-> "init", who |-> "player", hp0 |-> PlayerHp,
               pos0 |-> <<player.x, player.y>>]

NextHorde == MoveOrAttack \/ ActionHandler

SpecHorde == InitHorde /\ [][NextHorde]_vars

\* A plain Entity: something on the map that has no hp.
Things == {"item"}

\* The values random.randrange(a.atk + 1) can give; nothing is drawn for a
\* target without hp.
Draws(h, a, target) == IF has_hp(h, target) THEN 0 .. Ent(h, a).atk ELSE {0}

\* a.deal_damage(target), called directly.
DealDamageCall(a, target, dmg) ==
    Commit([deal_damage(Heap, target, dmg)
               EXCEPT !.ret = deal_damage_return(Heap, target, dmg)],
           Call("deal_damage", a))

DealDamage ==
    \E a \in {"player"} \cup DOMAIN mob, target \in {"player"} \cup DOMAIN mob \cup Things :
      \E dmg \in Draws(Heap, a, target) : DealDamageCall(a, target, dmg)

\* Combat on its own: anyone deals damage to anyone, and to a thing.
NextDeal == DealDamage

SpecDeal == InitAI /\ [][NextDeal]_vars

\* e.move(d[1], d[2]), called directly on any entity.
MoveCall(e, d) == Commit(move(Heap, e, d[1], d[2]), Call("move", e))

Move == \E e \in {"player"} \cup DOMAIN mob, d \in Dirs : MoveCall(e, d)

\* Movement in the open room: the player and one spider in opposite
\* corners, direct moves of either besides their turns.
InitMove ==
    /\ floor = Room
    /\ player = NewPlayer(0, 0)
    /\ mob = [m \in {"spider"} |-> NewMob(MapW - 1, MapH - 1, m)]
    /\ mobs = <<"spider">>
    /\ game_state = ALIVE
    /\ fov_refresh = FALSE
    /\ msgs = <<>>
    /\ die_calls = <<>>
    /\ seen = <<>>
    /\ ret = <<>>
    /\ GuiIdle
    /\ last = [op |-> "init", who |-> "player", hp0 |-> PlayerHp,
               pos0 |-> <<player.x, player.y>>]

NextMove == Move \/ MoveOrAttack \/ ActionHandler

SpecMove == InitMove /\ [][NextMove]_vars

\* ---------------------------------------------------- the GUI elements
\* No game is being played while the GUI elements are exercised.
GameIdle ==
    /\ floor = Corridor
    /\ player = NewPlayer(0, 0)
    /\ mob = <<>>
    /\ mobs = <<>>
    /\ game_state = ALIVE
    /\ fov_refresh = FALSE
    /\ msgs = <<>>
    /\ die_calls = <<>>
    /\ seen = <<>>
    /\ ret = <<>>
    /\ last = [op |-> "init", who |-> "gui", hp0 |-> 0, pos0 |-> <<0, 0>>]

\* What `last` keeps of an operation of a GUI element.
GuiCall(op) ==
    /\ last' = [op |-> op, who |-> "gui", hp0 |-> 0, pos0 |-> <<0, 0>>]
    /\ UNCHANGED game_vars

\* The colours add_msg is called with.
Colours == {"text", "mob_atk_text"}

\* message_box.add_msg(msg, colour)
AddMsgCall(msg, colour) ==
    /\ Len(appended) + Len(wrap(msg, MsgWidth)) <= MaxLines
    /\ message_box' = MessageBox_add_msg(message_box, msg, colour)
    /\ appended' = appended \o [i \in 1 .. Len(wrap(msg, MsgWidth)) |->
                                  <<wrap(msg, MsgWidth)[i], colour>>]
    /\ UNCHANGED <<menu, inv>>
    /\ GuiCall("add_msg")

AddMsg == \E msg \in Seqs(Words, MaxWords), colour \in Colours : AddMsgCall(msg, colour)

\* A message box of any height from one line up, empty.
InitBox ==
    /\ GameIdle
    /\ \E max_messages \in 1 .. MaxMessages : message_box = MessageBox(max_messages)
    /\ appended = <<>>
    /\ inv = <<>>
    /\ menu = InventoryMenu(<<>>)

NextBox == AddMsg

SpecBox == InitBox /\ [][NextBox]_vars

\* One pass of the loop of select() with the key pressed.
Listening == menu.active /\ menu.raised = <<>>

KeyUp ==
    /\ Listening
    /\ menu' = key_up(menu)
    /\ UNCHANGED <<message_box, appended, inv>>
    /\ GuiCall("key_up")

KeyDown ==
    /\ Listening
    /\ menu' = key_down(menu)
    /\ UNCHANGED <<message_box, appended, inv>>
    /\ GuiCall("key_down")

KeyEscape ==
    /\ Listening
    /\ menu' = key_escape(menu)
    /\ UNCHANGED <<message_box, appended, inv>>
    /\ GuiCall("key_escape")

\* The key 'd' in an InventoryMenu.
BindDrop ==
    /\ Listening
    /\ menu' = bind_drop(menu, inv).menu
    /\ inv' = bind_drop(menu, inv).inv
    /\ UNCHANGED <<message_box, appended>>
    /\ GuiCall("bind_drop")

\* A SelectMenu of 1 .. MaxOptions options showing up to 1 .. MaxShown.
InitMenu ==
    /\ GameIdle
    /\ message_box = MessageBox(MaxMessages)
    /\ appended = <<>>
    /\ inv = <<>>
    /\ \E n \in 1 .. MaxOptions, max_options \in 1 .. MaxShown :
          menu = SelectMenu([i \in 1 .. n |-> i], <<>>, max_options)

NextMenu == KeyUp \/ KeyDown \/ KeyEscape

SpecMenu == InitMenu /\ [][NextMenu]_vars

\* The inventories the player can hold: up to MaxCount of any of the items.
Inventories ==
    UNION {[held -> 1 .. MaxCount] : held \in SUBSET {ItemOrder[k] : k \in 1 .. Len(ItemOrder)}}

InitInventory ==
    /\ GameIdle
    /\ message_box = MessageBox(MaxMessages)
    /\ appended = <<>>
    /\ inv \in Inventories
    /\ menu = InventoryMenu(inv)

NextInventory == KeyUp \/ KeyDown \/ KeyEscape \/ BindDrop

SpecInventory == InitInventory /\ [][NextInventory]_vars

\* ------------------------------------------------------------ claims
Pos(r) == <<r.x, r.y>>

HpBefore(e) == IF e = "player" THEN player.hp ELSE mob[e].hp

HpAfter(e) == IF e = "player" THEN player'.hp ELSE mob'[e].hp

HasMsg(ms, text) == \E i \in 1 .. Len(ms) : ms[i].text = text

\* C1: the hp of the player and of every mob is in 0 .. max_hp in every
\* reachable state, whatever damage was taken and by which route.
C1_HpInRange ==
    /\ 0 <= player.hp /\ player.hp <= player.max_hp
    /\ \A m \in Mobs : 0 <= mob[m].hp /\ mob[m].hp <= mob[m].max_hp

\* A mob was killed by the player's attack, and the player by a mob's.
C1_Witness ==
    /\ player.hp = 0
    /\ \E m \in Mobs : mob[m].hp = 0 /\ mob[m].remains = 1

\* C2: a call of move_or_attack that attacks a mob (that is, emits an attack
\* message) leaves the player's position unchanged.
C2_AttackOrMove ==
    [][(last'.op = "move_or_attack" /\ msgs' # <<>>) => Pos(player') = Pos(player)]_vars

\* C3: a DEAD mob keeps its position, hp and state through every operation,
\* and an action_handler call on it changes nothing and emits no message.
C3_DeadIsTerminal ==
    [][\A m \in Mobs :
          mob[m].state = DEAD =>
             /\ Pos(mob'[m]) = Pos(mob[m])
             /\ mob'[m].hp = mob[m].hp
             /\ mob'[m].state = DEAD
             /\ (last'.op = "action_handler" /\ last'.who = m) =>
                   /\ player' = player /\ mob' = mob /\ mobs' = mobs
                   /\ game_state' = game_state /\ msgs' = <<>>]_vars

\* action_handler or take_damage has just been called on a mob that was
\* dead (hp 0) on entry.
C3_Witness ==
    /\ last.op \in {"action_handler", "take_damage"}
    /\ last.who \in Mobs
    /\ last.hp0 = 0
    /\ mob[last.who].state = DEAD

\* C4: take_damage on an entity whose hp is 0 on entry invokes no die(),
\* leaves the registry as it was and leaves hp at 0.
C4_NoSecondDie ==
    [][(last'.op = "take_damage" /\ last'.hp0 = 0) =>
          /\ die_calls' = <<>>
          /\ mobs' = mobs
          /\ HpAfter(last'.who) = 0]_vars

\* C5: on a live entity, take_damage(d) with d >= hp sets hp to 0 and
\* invokes die() exactly once; with d < hp it sets hp to hp - d and invokes
\* no die().
C5_TakeDamage ==
    [][\A e \in Entities, d \in Damages :
          (/\ last'.op = "take_damage"
           /\ last'.who = e
           /\ HpBefore(e) > 0
           /\ TakeDamageCall(e, d)) =>
             IF d >= HpBefore(e)
             THEN HpAfter(e) = 0 /\ die_calls' = <<e>>
             ELSE HpAfter(e) = HpBefore(e) - d /\ die_calls' = <<>>]_vars

\* A live entity has just been killed by a direct take_damage call.
C5_Witness ==
    /\ last.op = "take_damage"
    /\ last.hp0 > 0
    /\ Ent(Heap, last.who).hp = 0
    /\ die_calls = <<last.who>>

Unhealthy(r) == 10 * r.hp < 4 * r.max_hp

\* The state the claims' table gives a mob in state s, outside the flee case.
TableState(s, vis, unhealthy) ==
    CASE s = HOLD /\ vis /\ ~unhealthy -> CHASE
      [] s = CHASE /\ ~vis -> HOLD
      [] s = RUN /\ ~vis -> HOLD
      [] s = RUN /\ vis /\ ~unhealthy -> CHASE
      [] OTHER -> s

C7_FleeGate ==
    [][\A m \in Mobs, vis \in BOOLEAN, roll \in Rolls, dmg \in 0 .. MobAtk :
          (/\ last'.op = "action_handler"
           /\ last'.who = m
           /\ mob[m].state \in {HOLD, CHASE}
           /\ ActionHandlerCall(m, vis, roll, dmg)) =>
             (mob'[m].state = RUN <=>
                 (roll > mob[m].morale /\ vis /\ Unhealthy(mob[m])))]_vars

\* A mob has just entered RUN.
C7_Witness ==
    /\ last.op = "action_handler"
    /\ mob[last.who].state = RUN
    /\ HasMsg(msgs, "runs away")

\* The k-th axis-aligned neighbour of mob m, in the offset order
\* (1,0), (-1,0), (0,1), (0,-1).
Offsets == << <<1, 0>>, <<-1, 0>>, <<0, 1>>, <<0, -1>> >>

Nbr(m, k) == <<mob[m].x + Offsets[k][1], mob[m].y + Offsets[k][2]>>

\* Squared Euclidean distance from tile t to the player.
DistToPlayer(t) ==
    (t[1] - player.x) * (t[1] - player.x) + (t[2] - player.y) * (t[2] - player.y)

Blocked(t) == is_solid(Heap, t[1], t[2])

\* The neighbours of m that are not blocked and strictly closer to, or
\* strictly farther from, the player than m's tile.
Closer(m) ==
    {k \in 1 .. 4 : ~Blocked(Nbr(m, k))
                    /\ DistToPlayer(Nbr(m, k)) < DistToPlayer(Pos(mob[m]))}

Farther(m) ==
    {k \in 1 .. 4 : ~Blocked(Nbr(m, k))
                    /\ DistToPlayer(Nbr(m, k)) > DistToPlayer(Pos(mob[m]))}

\* The first, in offset order, of the closest neighbours in Closer(m).
ChaseGoal(m) ==
    IF Closer(m) = {} THEN Pos(mob[m])
    ELSE Nbr(m, CHOOSE k \in Closer(m) :
                  \A j \in Closer(m) :
                     \/ DistToPlayer(Nbr(m, k)) < DistToPlayer(Nbr(m, j))
                     \/ DistToPlayer(Nbr(m, k)) = DistToPlayer(Nbr(m, j)) /\ k <= j)

\* The first, in offset order, of the farthest neighbours in Farther(m).
RunGoal(m) ==
    IF Farther(m) = {} THEN Pos(mob[m])
    ELSE Nbr(m, CHOOSE k \in Farther(m) :
                  \A j \in Farther(m) :
                     \/ DistToPlayer(Nbr(m, k)) > DistToPlayer(Nbr(m, j))
                     \/ DistToPlayer(Nbr(m, k)) = DistToPlayer(Nbr(m, j)) /\ k <= j)

\* C8: a mob whose action_handler call runs chase ends the call on the
\* closest unblocked neighbour strictly closer to the player, the first in
\* offset order on ties, and where it was if there is no such neighbour.
C8_ChaseGoal ==
    [][\A m \in Mobs :
          (/\ last'.op = "action_handler" /\ last'.who = m
           /\ mob[m].state # DEAD /\ mob'[m].state = CHASE) =>
             Pos(mob'[m]) = ChaseGoal(m)]_vars

\* A chasing mob has just moved and is now next to the player.
C8_Witness ==
    /\ last.op = "action_handler"
    /\ last.pos0 # Pos(mob[last.who])
    /\ mob[last.who].state = CHASE
    /\ DistToPlayer(Pos(mob[last.who])) = 1

\* C9: a mob whose action_handler call runs run ends the call on the
\* farthest unblocked neighbour strictly farther from the player, the first
\* in offset order on ties, and where it was if there is none; with three
\* neighbours blocked and the fourth strictly farther it moves to the fourth.
C9_RunGoal ==
    [][\A m \in Mobs :
          (/\ last'.op = "action_handler" /\ last'.who = m
           /\ mob[m].state # DEAD /\ mob'[m].state = RUN) =>
             /\ Pos(mob'[m]) = RunGoal(m)
             /\ \A k \in 1 .. 4 :
                   (/\ k \in Farther(m)
                    /\ \A j \in (1 .. 4) \ {k} : Blocked(Nbr(m, j))) =>
                      Pos(mob'[m]) = Nbr(m, k)]_vars

\* A running mob has just moved out of a tile whose three other neighbours
\* are blocked.
C9_Witness ==
    /\ last.op = "action_handler"
    /\ last.pos0 # Pos(mob[last.who])
    /\ mob[last.who].state = RUN
    /\ \A k \in 1 .. 4 :
          LET t == <<last.pos0[1] + Offsets[k][1], last.pos0[2] + Offsets[k][2]>>
          IN  t # Pos(mob[last.who]) => Blocked(t)

\* The indices of the attack messages ("attacks you" / "missed") in ms.
Exchanges(ms) == {i \in 1 .. Len(ms) : ms[i].text \in {"attacks you", "missed"}}

\* C10: when chase runs with the player on a neighbouring tile, then if the
\* game is not over the mob resolves exactly one exchange (the player loses
\* the damage of the one attack message, down to 0) and does not move; if
\* the game is over already nothing is dealt and the player is unchanged.
C10_AttackOrStay ==
    [][\A m \in Mobs :
          (/\ last'.op = "action_handler" /\ last'.who = m
           /\ mob[m].state # DEAD /\ mob'[m].state = CHASE
           /\ DistToPlayer(Pos(mob[m])) = 1) =>
             IF game_state # DEAD
             THEN /\ Cardinality(Exchanges(msgs')) = 1
                  /\ \A i \in Exchanges(msgs') :
                        player'.hp = IF player.hp - msgs'[i].dmg > 0
                                     THEN player.hp - msgs'[i].dmg ELSE 0
                  /\ Pos(mob'[m]) = Pos(mob[m])
             ELSE /\ Exchanges(msgs') = {}
                  /\ die_calls' = <<>>
                  /\ player' = player]_vars

\* A chasing mob next to the player has just hit the player and stayed.
C10_Witness ==
    /\ last.op = "action_handler"
    /\ last.pos0 = Pos(mob[last.who])
    /\ mob[last.who].state = CHASE
    /\ HasMsg(msgs, "attacks you")
    /\ DistToPlayer(Pos(mob[last.who])) = 1

\* A chasing mob next to the dead player has just had its turn.
C10_WitnessDead ==
    /\ last.op = "action_handler"
    /\ mob[last.who].state = CHASE
    /\ game_state = DEAD
    /\ msgs = <<>>
    /\ DistToPlayer(Pos(mob[last.who])) = 1

\* The registry r without mob m.
Without(r, m) == LET Other(x) == x # m IN SelectSeq(r, Other)

Range(r) == {r[i] : i \in 1 .. Len(r)}

InSeq(r, x) == \E i \in 1 .. Len(r) : r[i] = x

\* C11: a call in which Mob.die() runs on m leaves m with the glyph "X",
\* not solid, in state DEAD and at index 0 of the registry; the other mobs
\* keep their relative order, and the registry its length and members.
C11_MobDie ==
    [][\A m \in DOMAIN mob :
          InSeq(die_calls', m) =>
             /\ mob'[m].char = "X"
             /\ ~mob'[m].solid
             /\ mob'[m].state = DEAD
             /\ mobs'[1] = m
             /\ Without(mobs', m) = Without(mobs, m)
             /\ Len(mobs') = Len(mobs)
             /\ Range(mobs') = Range(mobs)]_vars

\* The last mob of a registry of three has just died and moved to the front,
\* ahead of the two others, which keep the order they had.
C11_Witness ==
    /\ die_calls = <<"spider2">>
    /\ mobs = <<"spider2", "skeleton", "spider">>
    /\ mob["spider2"].char = "X"
    /\ mob["spider"].state # DEAD

\* The entities other than e that are solid and stand on tile t.
SolidOthers(h, e, t) ==
    {o \in ({"player"} \cup DOMAIN h.mob) \ {e} :
        Ent(h, o).solid /\ Pos(Ent(h, o)) = t}

\* The state with the position of e left out.
Rest(h, e) ==
    IF e = "player" THEN [h EXCEPT !.player.x = 0, !.player.y = 0]
    ELSE [h EXCEPT !.mob[e].x = 0, !.mob[e].y = 0]

\* C12: e.move(dx, dy) puts e on (x+dx, y+dy) exactly when that tile is not
\* blocked and changes nothing else; a blocked move changes nothing; and
\* whatever the operation, an entity that changed tile stands on a floor
\* tile on which no other solid entity stands.
C12_Move ==
    [][/\ \A e \in {"player"} \cup DOMAIN mob, d \in Dirs :
            MoveCall(e, d) =>
               LET t == <<Ent(Heap, e).x + d[1], Ent(Heap, e).y + d[2]>>
               IN  /\ Pos(Ent(Heap', e)) = t <=> ~Blocked(t)
                   /\ Blocked(t) => Heap' = Heap
                   /\ Rest(Heap', e) = Rest(Heap, e)
       /\ \A e \in {"player"} \cup DOMAIN mob :
            Pos(Ent(Heap', e)) # Pos(Ent(Heap, e)) =>
               /\ Pos(Ent(Heap', e)) \in floor'
               /\ SolidOthers(Heap', e, Pos(Ent(Heap', e))) = {}]_vars

\* A direct move has just taken the spider onto the next tile.
C12_Witness ==
    /\ last.op = "move"
    /\ last.who = "spider"
    /\ Pos(mob["spider"]) # last.pos0

\* A direct move of the spider against a wall or a solid entity has just
\* left it where it was.
C12_WitnessBlocked ==
    /\ last.op = "move"
    /\ last.who = "spider"
    /\ Pos(mob["spider"]) = last.pos0

\* C13: the first Player.die() sets the game state to DEAD and the glyph
\* to "%"; a take_damage that calls it again on the dead player changes
\* nothing; the game state only ever changes from ALIVE to DEAD.
C13_PlayerDie ==
    [][/\ (game_state # DEAD /\ InSeq(die_calls', "player")) =>
             game_state' = DEAD /\ player'.char = "%"
       /\ (game_state = DEAD /\ last'.op = "take_damage" /\ last'.who = "player") =>
             /\ InSeq(die_calls', "player")
             /\ Heap' = Heap
       /\ game_state = DEAD => game_state' = DEAD /\ player'.char = "%"
       /\ game_state' # game_state => game_state = ALIVE /\ game_state' = DEAD]_vars

\* die() has just run again on the player, who was already dead.
C13_Witness ==
    /\ last.op = "take_damage"
    /\ last.who = "player"
    /\ last.hp0 = 0
    /\ die_calls = <<"player">>
    /\ game_state = DEAD
    /\ player.char = "%"

\* The messages of ms that name mob m.
About(ms, m) == LET Names(x) == x.who = m IN SelectSeq(ms, Names)

IndexOf(r, m) == CHOOSE i \in 1 .. Len(r) : r[i] = m

\* C14: a move_or_attack call that attacks mob m with damage N emits for m
\* one hit message carrying N when N > 0 and one "missed" message when
\* N = 0, followed by the kill message exactly when m is DEAD after the
\* exchange, which is also exactly when the suffix is appended; a mob that
\* is not attacked gets no message and no suffix; no mob ever carries the
\* suffix twice.
C14_AttackMessages ==
    [][/\ last'.op = "move_or_attack" =>
            \A d \in Dirs :
               \A dmgs \in [Targets(Heap, d[1], d[2]) -> 0 .. player.atk] :
                  MoveOrAttackCall(d, dmgs) =>
                     \A m \in DOMAIN mob :
                        IF mob[m].solid /\ Pos(mob[m]) = <<player.x + d[1], player.y + d[2]>>
                        THEN LET N == dmgs[IndexOf(mobs, m)]
                                 dead == mob'[m].state = DEAD
                             IN  /\ About(msgs', m) =
                                       <<IF N > 0 THEN Msg("You attack", m, N)
                                         ELSE Msg("You missed", m, 0)>>
                                       \o (IF dead THEN <<Msg("You killed", m, 0)>>
                                           ELSE <<>>)
                                 /\ mob'[m].remains =
                                       mob[m].remains + (IF dead THEN 1 ELSE 0)
                        ELSE /\ About(msgs', m) = <<>>
                             /\ mob'[m].remains = mob[m].remains
       /\ \A m \in DOMAIN mob : mob'[m].remains <= 1]_vars

\* The player has just missed one mob while another already lies killed,
\* carrying the suffix once.
C14_Witness ==
    /\ last.op = "move_or_attack"
    /\ \E m \in DOMAIN mob : msgs = <<Msg("You missed", m, 0)>>
    /\ \E m \in DOMAIN mob : mob[m].remains = 1 /\ mob[m].state = DEAD

\* The player has just killed a mob.
C14_WitnessKill ==
    /\ last.op = "move_or_attack"
    /\ \E m \in DOMAIN mob :
          /\ Len(msgs) = 2
          /\ msgs[1].text = "You attack"
          /\ msgs[2] = Msg("You killed", m, 0)
          /\ mob[m].remains = 1

Max0(n) == IF n < 0 THEN 0 ELSE n

\* C15: a.deal_damage(target) on a target with hp returns an integer dmg
\* with 0 <= dmg <= a.atk and leaves the target at max(0, hp - dmg); on a
\* target without hp it returns None and changes nothing.
C15_DealDamage ==
    [][last'.op = "deal_damage" =>
          \A target \in {"player"} \cup DOMAIN mob \cup Things :
             (\E dmg \in Draws(Heap, last'.who, target) :
                 DealDamageCall(last'.who, target, dmg)) =>
                IF target \in Things
                THEN ret' = <<>> /\ Heap' = Heap
                ELSE /\ Len(ret') = 1
                     /\ ret'[1] \in 0 .. Ent(Heap, last'.who).atk
                     /\ HpAfter(target) = Max0(HpBefore(target) - ret'[1])]_vars

\* The skeleton has just dealt one point of damage to the spider, which
\* survives it.
C15_Witness ==
    /\ last.op = "deal_damage"
    /\ last.who = "skeleton"
    /\ ret = <<1>>
    /\ mob["spider"].hp = MobHp - 1

\* A deal_damage on a thing has just returned None.
C15_WitnessNone ==
    /\ last.op = "deal_damage"
    /\ ret = <<>>

\* C16: action_handler acts on the state it has just computed: a mob left
\* in HOLD neither moves nor attacks; a mob that has just switched to CHASE
\* chases in the same call (it attacks a live player next to it and
\* otherwise ends on its chase goal); a mob that has just switched to RUN
\* ends the call on its run goal.
C16_DispatchUpdated ==
    [][\A m \in Mobs :
          (last'.op = "action_handler" /\ last'.who = m /\ mob[m].state # DEAD) =>
             /\ mob'[m].state = HOLD =>
                   /\ Pos(mob'[m]) = Pos(mob[m])
                   /\ player' = player
                   /\ Exchanges(msgs') = {}
                   /\ die_calls' = <<>>
             /\ (mob[m].state # CHASE /\ mob'[m].state = CHASE) =>
                   /\ Pos(mob'[m]) = ChaseGoal(m)
                   /\ (DistToPlayer(Pos(mob[m])) = 1 /\ game_state # DEAD) =>
                         Cardinality(Exchanges(msgs')) = 1
             /\ (mob[m].state # RUN /\ mob'[m].state = RUN) =>
                   Pos(mob'[m]) = RunGoal(m)]_vars

\* A mob has just seen the player and, in the same call, stepped towards
\* the player.
C16_Witness ==
    /\ last.op = "action_handler"
    /\ HasMsg(msgs, "sees you")
    /\ mob[last.who].state = CHASE
    /\ Pos(mob[last.who]) # last.pos0

\* A mob has just taken fright and, in the same call, stepped away.
C16_WitnessRun ==
    /\ last.op = "action_handler"
    /\ HasMsg(msgs, "runs away")
    /\ mob[last.who].state = RUN
    /\ Pos(mob[last.who]) # last.pos0

\* A chasing mob has just lost sight of the player and stayed where it was,
\* with a closer tile free.
C16_WitnessHold ==
    /\ last.op = "action_handler"
    /\ mob[last.who].state = HOLD
    /\ Pos(mob[last.who]) = last.pos0
    /\ Closer(last.who) # {}

\* The columns of the row of m's state whose predicate holds, for the
\* answers vis and roll of the field-of-view map and the random source.
TrueChecks(m, vis, roll) ==
    LET row == state_chart[mob[m].state + 1]
    IN  {x \in 0 .. Len(row) - 1 :
            row[x + 1] # "None" /\ check(Heap, m, row[x + 1], vis, roll)}

\* The transition messages in ms.
Transitions(ms) == {i \in 1 .. Len(ms) : ms[i].text \in {"sees you", "runs away"}}

\* C17: whatever the map and the random source answer, at most one
\* predicate of the row of a live mob's state holds, and no column of the
\* row that holds is the state itself; an action_handler call emits at most
\* one transition message: "sees you" exactly when the mob enters CHASE
\* from another state, "runs away" exactly when it enters RUN from another
\* state, none when it enters HOLD or stays.
C17_OneTransition ==
    [][\A m \in Mobs :
          mob[m].state # DEAD =>
             /\ \A vis \in BOOLEAN, roll \in Rolls :
                   /\ Cardinality(TrueChecks(m, vis, roll)) <= 1
                   /\ mob[m].state \notin TrueChecks(m, vis, roll)
             /\ (last'.op = "action_handler" /\ last'.who = m) =>
                   /\ Cardinality(Transitions(msgs')) <= 1
                   /\ HasMsg(msgs', "sees you") <=>
                         (mob[m].state # CHASE /\ mob'[m].state = CHASE)
                   /\ HasMsg(msgs', "runs away") <=>
                         (mob[m].state # RUN /\ mob'[m].state = RUN)]_vars

\* A wounded mob in CHASE has just taken fright: one message, "runs away".
C17_Witness ==
    /\ last.op = "action_handler"
    /\ mob[last.who].state = RUN
    /\ Unhealthy(mob[last.who])
    /\ Len(msgs) >= 1
    /\ msgs[1] = Msg("runs away", last.who, 0)
    /\ Cardinality(Transitions(msgs)) = 1

\* A mob has just gone back to HOLD, without a message.
C17_WitnessHold ==
    /\ last.op = "action_handler"
    /\ mob[last.who].state = HOLD
    /\ mob[last.who].hp < MobHp
    /\ msgs = <<>>

\* C18: in every state a mob is in state DEAD exactly when its hp is 0 and
\* exactly when it is not solid, and the game state is DEAD exactly when
\* the player's hp is 0.
C18_DeadIffNoHp ==
    /\ \A m \in DOMAIN mob :
          /\ mob[m].state = DEAD <=> mob[m].hp = 0
          /\ mob[m].hp = 0 <=> ~mob[m].solid
    /\ game_state = DEAD <=> player.hp = 0

\* The player and one mob are dead, the other mob is wounded and alive.
C18_Witness ==
    /\ game_state = DEAD
    /\ player.hp = 0
    /\ \E m \in DOMAIN mob : mob[m].state = DEAD /\ mob[m].hp = 0 /\ ~mob[m].solid
    /\ \E m \in DOMAIN mob :
          mob[m].state # DEAD /\ mob[m].hp > 0 /\ mob[m].hp < MobHp /\ mob[m].solid

\* C19: no mob's hp ever increases, and a mob below 0.4*max_hp that is
\* not in CHASE stays below it and out of CHASE; its action_handler calls
\* deal no damage and emit no attack message.
C19_UnhealthyNeverChases ==
    [][\A m \in Mobs :
          /\ mob'[m].hp <= mob[m].hp
          /\ (Unhealthy(mob[m]) /\ mob[m].state # CHASE) =>
                /\ Unhealthy(mob'[m])
                /\ mob'[m].state \in {HOLD, RUN, DEAD}
                /\ (last'.op = "action_handler" /\ last'.who = m) =>
                      /\ Exchanges(msgs') = {}
                      /\ player' = player
                      /\ game_state' = game_state]_vars

\* A wounded mob in HOLD next to the live player has just had its turn and
\* has not attacked.
C19_Witness ==
    /\ last.op = "action_handler"
    /\ Unhealthy(mob[last.who])
    /\ mob[last.who].state = HOLD
    /\ DistToPlayer(Pos(mob[last.who])) = 1
    /\ game_state # DEAD
    /\ msgs = <<>>

\* The mobs that are DEAD in the mob table t.
DeadIn(t) == {m \in DOMAIN t : t[m].state = DEAD}

\* C20: over turns of the player and of the mobs the registry stays a
\* permutation of the mobs it started with, its DEAD mobs come before all
\* the others, a mob that dies is at index 0 afterwards, and a turn in
\* which no mob dies leaves the registry as it was.
C20_DeadPrefix ==
    [][/\ Len(mobs') = Cardinality(Horde)
       /\ Range(mobs') = Horde
       /\ \A i \in 1 .. Len(mobs') :
             mobs'[i] \in DeadIn(mob') <=> i <= Cardinality(DeadIn(mob'))
       /\ \A m \in DeadIn(mob') \ DeadIn(mob) : mobs'[1] = m
       /\ DeadIn(mob') = DeadIn(mob) => mobs' = mobs]_vars

\* The player has killed the spider and then the skeleton: both lie at the
\* front of the registry, the skeleton first, the live spider behind them.
C20_Witness ==
    /\ last.op = "move_or_attack"
    /\ die_calls = <<"skeleton">>
    /\ mobs = <<"skeleton", "spider", "spider2">>
    /\ DeadIn(mob) = {"skeleton", "spider"}

\* The attack messages ("You attack" / "You missed") of ms that name m.
AttacksOn(ms, m) ==
    {i \in 1 .. Len(ms) : ms[i].who = m /\ ms[i].text \in {"You attack", "You missed"}}

\* C21: the loop of a move_or_attack call looks at every mob of the
\* registry exactly once, also when a mob it attacks dies and moves to the
\* front of the registry under the iteration, and it attacks no mob twice.
C21_EachMobOnce ==
    [][last'.op = "move_or_attack" =>
          /\ Len(seen') = Len(mobs)
          /\ \A m \in Range(mobs) :
                /\ Cardinality({i \in 1 .. Len(seen') : seen'[i] = m}) = 1
                /\ Cardinality(AttacksOn(msgs', m)) <= 1]_vars

\* The player has just killed the skeleton, the second of three mobs: it
\* went to the front of the registry during the loop, and the loop still
\* looked at the spider, the skeleton and the second spider once each.
C21_Witness ==
    /\ last.op = "move_or_attack"
    /\ die_calls = <<"skeleton">>
    /\ seen = <<"spider", "skeleton", "spider2">>
    /\ mobs[1] = "skeleton"
    /\ mob["spider2"].state # DEAD

\* C22: the message box never holds more than max_messages lines, and the
\* lines it holds are the last lines appended, in the order of arrival.
C22_BoundedFifo ==
    LET n == Len(appended)
        k == Min(message_box.max_messages, n)
    IN  /\ Len(message_box.messages) <= message_box.max_messages
        /\ message_box.messages = SubSeq(appended, n - k + 1, n)

\* A box of two lines has just taken a third line: the first line is gone,
\* the two lines left differ and are in the order of arrival.
C22_Witness ==
    /\ last.op = "add_msg"
    /\ message_box.max_messages = 2
    /\ Len(appended) = 3
    /\ appended[1] # appended[2]
    /\ appended[2] # appended[3]
    /\ message_box.messages = <<appended[2], appended[3]>>

\* A message of three words has been wrapped into two lines.
C22_WitnessWrapped ==
    /\ last.op = "add_msg"
    /\ appended = << << <<"a", "b">>, "text" >>, << <<"a">>, "text" >> >>

\* The window of menu mn is min(max_options, n) options wide, lies inside
\* the n options and holds the selection.
WindowHoldsSelection(mn) ==
    /\ 0 <= mn.slice_head
    /\ mn.slice_head <= mn.selection_index
    /\ mn.selection_index < mn.slice_tail
    /\ mn.slice_tail <= Len(mn.options)
    /\ mn.slice_tail - mn.slice_head = Min(mn.max_options, Len(mn.options))

\* C23: in a SelectMenu of n >= 1 options, before and after every key,
\* 0 <= slice_head <= selection_index < slice_tail <= n and the window is
\* min(max_options, n) wide; UP on the first option and DOWN on the last
\* change nothing.
C23_SelectionInWindow ==
    [][/\ WindowHoldsSelection(menu)
       /\ WindowHoldsSelection(menu')
       /\ (last'.op = "key_up" /\ menu.selection_index = 0) => menu' = menu
       /\ (last'.op = "key_down" /\ menu.selection_index = Len(menu.options) - 1) =>
             menu' = menu]_vars

\* DOWN has just scrolled the window of a menu with more options than it
\* shows down to the last option.
C23_Witness ==
    /\ last.op = "key_down"
    /\ Len(menu.options) > menu.max_options
    /\ menu.max_options > 1
    /\ menu.slice_head > 0
    /\ menu.selection_index = Len(menu.options) - 1
    /\ menu.slice_tail = Len(menu.options)

\* UP has just scrolled the window back to the first option.
C23_WitnessUp ==
    /\ last.op = "key_up"
    /\ Len(menu.options) > menu.max_options
    /\ menu.slice_head = 0
    /\ menu.selection_index = 0

\* C24: in an InventoryMenu, after any drops and UP/DOWN keys, whenever
\* options are left: 0 <= selection_index <= len(options) - 1, slice_tail
\* <= len(options), max_selection = len(options) - 1, and options and
\* column2 are equally long.
C24_SelectionInRange ==
    menu.options # <<>> =>
       /\ 0 <= menu.selection_index
       /\ menu.selection_index <= Len(menu.options) - 1
       /\ menu.slice_tail <= Len(menu.options)
       /\ menu.max_selection = Len(menu.options) - 1
       /\ Len(menu.options) = Len(menu.column2)

\* The selection points past the last option that is left.
C24_SelectionPastEnd ==
    /\ menu.options # <<>>
    /\ menu.selection_index > Len(menu.options) - 1

====
